---- MODULE Spec2Model ----
(***************************************************************************)
(* Model of binance-cli's multi-account fan-out (main.go): the credential  *)
(* file, the account registry built by initAccounts, the swappable         *)
(* selector findAccounts (findAccountsImpl / the closure installed by      *)
(* runOnce), the accountsDo loop with its optional postAction, print, and  *)
(* main's fatal exit.                                                      *)
(***************************************************************************)
EXTENDS Integers, Sequences, FiniteSets, TLC

\* ------------------------------------------------------------------ bounds

\* Longest credential file (number of AccountKey records) explored.
MaxKeys == 2

\* ----------------------------------------------------------- input domains

\* Account names that occur in credential records.
Names == {"A", "B", "C"}
\* Names in Go's string order (encoding/json writes map keys sorted).
KeyOrder == <<"A", "B", "C">>
\* Values of the --name flag: unset, or a name (which the file may lack).
NameFlags == {""} \cup Names
APIKeys == {"k1", "k2"}
SecretKeys == {"s1"}
\* Payloads an operation may return on success, and its error messages.
Payloads == {"p1", "p2"}
ActionErrors == {"auth failed"}
\* What a postAction may return.
FinalValues == {"total"}
PostErrors == {"bad aggregate"}

\* ------------------------------------------------------------- Go values

\* error: nil, or a message with the location errors.Trace recorded.
NoErr == [msg |-> "", site |-> ""]
NewErr(m) == [msg |-> m, site |-> ""]
\* errors.Trace(err): same message, annotated with the call site.
Trace(e, where) == [msg |-> e.msg, site |-> where]

\* *Account: <<>> is the nil pointer, <<a>> points to a.
Nil == <<>>
Ptr(a) == <<a>>

\* map[string]T as a function on its key set; a nil map has no keys either.
EmptyMap == [k \in {} |-> Nil]
MapPut(m, k, v) == [x \in (DOMAIN m) \cup {k} |-> IF x = k THEN v ELSE m[x]]
\* m[k] of a Go map: the zero value (nil pointer) when k is absent.
MapGet(m, k) == IF k \in DOMAIN m THEN m[k] ELSE Nil

\* interface{} values: a dynamic type and a value.
NilValue == [type |-> "nil", val |-> ""]
StringValue(s) == [type |-> "string", val |-> s]
PayloadValue(p) == [type |-> "payload", val |-> p]
MapValue(m) == [type |-> "map", val |-> m]

\* AccountKey records and credential files.
AccountKey == [Name : Names, APIKey : APIKeys, SecretKey : SecretKeys]
KeySeqs == UNION {[1..n -> AccountKey] : n \in 0..MaxKeys}
Files == {[kind |-> "unreadable", keys |-> <<>>], [kind |-> "malformed", keys |-> <<>>]}
           \cup {[kind |-> "ok", keys |-> ks] : ks \in KeySeqs}

\* ------------------------------------------------------------------ state

VARIABLES
  name,          \* --name flag
  keyfile,       \* --keyfile flag
  debug,         \* --debug flag
  file,          \* the credential file on disk (not rewritten while the process runs)
  accounts,      \* package-level registry map[string]*Account
  findAccounts,  \* package-level selector: "impl" or "once"
  pc,            \* where the process is
  hasPost,       \* len(postAction) > 0 in the running accountsDo
  selected,      \* accountsDo's local accounts := findAccounts(name)
  todo,          \* keys the range loop has not yielded yet
  results,       \* accountsDo's results map
  ret,           \* accountsDo's ret
  err,           \* error accountsDo returned
  invocations,   \* log of action(account) calls of the running accountsDo, each
                 \* with the results map as it was before the call
  postLog,       \* log of postAction[0](results) calls of the running accountsDo
  printed,       \* documents fmt.Println wrote in the running accountsDo
  loadErr,       \* loadKeys returned an error
  callKind,      \* entry point of the running call: "accountsDo" or "runOnce"
  ranOnce        \* runOnce has been called in this process

vars == <<name, keyfile, debug, file, accounts, findAccounts, pc, hasPost, selected,
          todo, results, ret, err, invocations, postLog, printed, loadErr,
          callKind, ranOnce>>

flags == <<name, debug, file>>
locals == <<hasPost, selected, todo, results, ret, err, invocations, postLog, printed,
            callKind>>

\* ------------------------------------------------------- credential store

\* loadKeys: ReadFile error or Unmarshal error, else the records.
loadKeys(f) ==
  IF f.kind = "unreadable" THEN [keys |-> <<>>, err |-> Trace(NewErr("read"), "main.go:33")]
  ELSE IF f.kind = "malformed" THEN [keys |-> <<>>, err |-> Trace(NewErr("parse"), "main.go:38")]
  ELSE [keys |-> f.keys, err |-> NoErr]

\* ------------------------------------------------------- account registry

\* binance.NewClient(apiKey, secretKey)
NewClient(apiKey, secretKey) == [APIKey |-> apiKey, SecretKey |-> secretKey, Debug |-> FALSE]

\* One iteration body of initAccounts' loop: the Account built from key.
NewAccount(key, dbg) ==
  LET client == NewClient(key.APIKey, key.SecretKey)
  IN  [Name |-> key.Name, Client |-> IF dbg THEN [client EXCEPT !.Debug = TRUE] ELSE client]

\* Faulty variant of BuildAccounts: an earlier record of a name is kept.
BuildAccountsFirstWins(keys, dbg, m) ==
  LET F[i \in 0..Len(keys)] ==
        IF i = 0 THEN m
        ELSE LET a == NewAccount(keys[i], dbg)
             IN  IF a.Name \in DOMAIN F[i-1] THEN F[i-1] ELSE MapPut(F[i-1], a.Name, Ptr(a))
  IN  F[Len(keys)]

\* initAccounts' loop over keys, in file order: accounts[account.Name] = account.
BuildAccounts(keys, dbg, m) ==
  LET F[i \in 0..Len(keys)] ==
        IF i = 0 THEN m
        ELSE LET a == NewAccount(keys[i], dbg)
             IN  MapPut(F[i-1], a.Name, Ptr(a))
  IN  F[Len(keys)]

\* Faulty variant of InitAccountsFatal: the load error is dropped.
InitAccountsIgnoresError(e) == FALSE

\* initAccounts: log.Fatal when loadKeys failed.
InitAccountsFatal(e) == e # NoErr

\* ----------------------------------------------------------------- selector

\* Faulty variant of FindAccountsImpl: the name filter is not applied.
FindAccountsImplAll(accts, nm) == accts

\* findAccountsImpl after initAccounts: everything, or the one named entry.
FindAccountsImpl(accts, nm) ==
  IF nm = "" THEN accts ELSE MapPut(EmptyMap, nm, MapGet(accts, nm))

\* Faulty variant of FindAccountsOnce: the closure honours the name filter.
FindAccountsOnceByName(accts, nm) == {FindAccountsImpl(accts, nm)}

\* runOnce's closure after initAccounts: the first entry range yields (any one
\* of them), or a nil map when the registry is empty.
FindAccountsOnce(accts, nm) ==
  IF DOMAIN accts = {} THEN {EmptyMap}
  ELSE {MapPut(EmptyMap, k, accts[k]) : k \in DOMAIN accts}

\* findAccounts(name) through the function variable.
Resolve(sel, accts, nm) ==
  IF sel = "once" THEN FindAccountsOnce(accts, nm) ELSE {FindAccountsImpl(accts, nm)}

\* Faulty variant of SelectorAfter: accountsDo reinstalls findAccountsImpl.
SelectorAfterReset(kind, cur) == IF kind = "runOnce" THEN "once" ELSE "impl"

\* The selector in force once the entry point has run its first statement:
\* runOnce assigns the closure, accountsDo assigns nothing.
SelectorAfter(kind, cur) == IF kind = "runOnce" THEN "once" ELSE cur

\* ------------------------------------------------------------------ render

Marshalable(v) ==
  \/ v.type \in {"nil", "string", "payload", "final"}
  \/ /\ v.type = "map"
     /\ \A k \in DOMAIN v.val : v.val[k].type \in {"nil", "string", "payload", "final"}

MarshalScalar(v) ==
  IF v.type = "nil" THEN "null"
  ELSE IF v.type = "string" THEN "\"" \o v.val \o "\""
  ELSE "{" \o v.val \o "}"

\* The entries of a map in key order, comma separated.
MarshalEntries(m) ==
  LET keys == SelectSeq(KeyOrder, LAMBDA k : k \in DOMAIN m)
      F[i \in 0..Len(keys)] ==
        IF i = 0 THEN ""
        ELSE F[i-1] \o (IF i > 1 THEN "," ELSE "")
               \o "\"" \o keys[i] \o "\": " \o MarshalScalar(m[keys[i]])
  IN  F[Len(keys)]

\* json.MarshalIndent(ret, "", "    ")
MarshalIndent(v) ==
  IF ~Marshalable(v) THEN [out |-> "", err |-> NewErr("json: unsupported type")]
  ELSE IF v.type = "map" THEN [out |-> "{" \o MarshalEntries(v.val) \o "}", err |-> NoErr]
  ELSE [out |-> MarshalScalar(v), err |-> NoErr]

\* ------------------------------------------------------------------- Init

Init ==
  /\ name \in NameFlags
  /\ keyfile \in {"", "keys.json"}
  /\ debug \in BOOLEAN
  /\ file \in Files
  /\ accounts = EmptyMap
  /\ findAccounts = "impl"
  /\ pc = "idle"
  /\ hasPost = FALSE
  /\ selected = EmptyMap
  /\ todo = {}
  /\ results = EmptyMap
  /\ ret = NilValue
  /\ err = NoErr
  /\ invocations = <<>>
  /\ postLog = <<>>
  /\ printed = <<>>
  /\ loadErr = FALSE
  /\ callKind = "none"
  /\ ranOnce = FALSE

\* ------------------------------------------------------------- operations

\* What action(account) may return: (payload, nil) or (nil, error).
ActionOutcomes ==
  {[res |-> PayloadValue(p), err |-> NoErr] : p \in Payloads}
    \cup {[res |-> NilValue, err |-> NewErr(e)] : e \in ActionErrors}

\* What postAction[0](results) may return: (value, nil) or (nil, error).
PostOutcomes ==
  {[val |-> [type |-> "final", val |-> v], err |-> NoErr] : v \in FinalValues}
    \cup {[val |-> NilValue, err |-> NewErr(e)] : e \in PostErrors}

\* fmt.Sprintf("error: %s", err)
SprintfError(e) == "error: " \o e.msg

\* Faulty variant of StoreResult: a failing account gets no entry.
StoreResultDropsErrors(res, account, r, e) ==
  IF e # NoErr THEN res ELSE MapPut(res, account.Name, r)

\* The if/else of the loop body: the entry written for account.
StoreResult(res, account, r, e) ==
  IF e # NoErr THEN MapPut(res, account.Name, StringValue(SprintfError(e)))
  ELSE MapPut(res, account.Name, r)

\* Faulty variant of LoopRest: the loop stops at the first failure.
LoopRestBreaksOnError(rest, k, e) == IF e # NoErr THEN {} ELSE rest \ {k}

\* The keys range still has to yield after yielding k: an error changes nothing.
LoopRest(rest, k, e) == rest \ {k}

\* Faulty variant of AbortOnError: the commented-out return is active.
AbortOnErrorEnabled(e) == e # NoErr

\* The early return on a per-account error is commented out.
AbortOnError(e) == FALSE

\* Faulty variant of PostNext: a finalizer error does not stop the render.
PostNextAlwaysPrints(e) == "print"

\* After postAction: return its error, or go on to print.
PostNext(e) == IF e # NoErr THEN "returned" ELSE "print"

\* main: log.Fatal when app.Run returned an error.
MainFatal(e) == e # NoErr

\* The entry points up to the start of accountsDo's loop: runOnce installs its
\* closure, findAccounts(name) runs initAccounts (fatal on a load error) and
\* resolves the selection; results is a fresh map.
Enter(kind, post) ==
  /\ pc = "idle"
  /\ callKind' = kind
  /\ ranOnce' = (ranOnce \/ kind = "runOnce")
  /\ hasPost' = post
  /\ findAccounts' = SelectorAfter(kind, findAccounts)
  /\ keyfile' = IF keyfile = "" THEN "keys.json" ELSE keyfile
  /\ LET r == loadKeys(file)
     IN  /\ loadErr' = (r.err # NoErr)
         /\ IF InitAccountsFatal(r.err)
            THEN /\ pc' = "fatal_load"
                 /\ UNCHANGED <<accounts, selected, todo>>
            ELSE /\ accounts' = BuildAccounts(r.keys, debug, EmptyMap)
                 /\ \E sel \in Resolve(findAccounts', accounts', name) :
                      /\ selected' = sel
                      /\ todo' = DOMAIN sel
                 /\ pc' = "loop"
  /\ results' = EmptyMap
  /\ ret' = NilValue
  /\ err' = NoErr
  /\ invocations' = <<>>
  /\ postLog' = <<>>
  /\ printed' = <<>>
  /\ UNCHANGED flags

AccountsDo == \E post \in BOOLEAN : Enter("accountsDo", post)

RunOnce == \E post \in BOOLEAN : Enter("runOnce", post)

\* One iteration of the range loop: some not yet yielded entry, the operation
\* on it, the entry written to results. A nil account is dereferenced (by the
\* operation, or by account.Name right after it): a run-time panic.
LoopStep ==
  /\ pc = "loop"
  /\ \E k \in todo :
       LET account == selected[k]
       IN  IF account = Nil
           THEN /\ pc' = "panic"
                /\ invocations' = Append(invocations,
                                         [account |-> Nil, before |-> results,
                                          res |-> NilValue, err |-> NoErr])
                /\ UNCHANGED <<results, todo, err>>
           ELSE \E out \in ActionOutcomes :
                  /\ invocations' = Append(invocations,
                                           [account |-> account, before |-> results,
                                            res |-> out.res, err |-> out.err])
                  /\ IF AbortOnError(out.err)
                     THEN /\ pc' = "returned"
                          /\ err' = Trace(out.err, "main.go:98")
                          /\ UNCHANGED <<results, todo>>
                     ELSE /\ results' = StoreResult(results, account[1], out.res, out.err)
                          /\ todo' = LoopRest(todo, k, out.err)
                          /\ UNCHANGED <<pc, err>>
  /\ UNCHANGED <<flags, keyfile, accounts, findAccounts, hasPost, selected, ret, postLog,
                 printed, loadErr, callKind, ranOnce>>

\* After the loop: ret is postAction[0](results), whose error is returned, or
\* the results map itself.
PostStep ==
  /\ pc = "loop"
  /\ todo = {}
  /\ IF hasPost
     THEN \E out \in PostOutcomes :
            /\ postLog' = Append(postLog, [arg |-> results, pending |-> todo,
                                           val |-> out.val, err |-> out.err])
            /\ ret' = out.val
            /\ pc' = PostNext(out.err)
            /\ err' = IF pc' = "returned" THEN Trace(out.err, "main.go:107") ELSE err
     ELSE /\ ret' = MapValue(results)
          /\ pc' = "print"
          /\ UNCHANGED <<postLog, err>>
  /\ UNCHANGED <<flags, keyfile, accounts, findAccounts, hasPost, selected, todo, results,
                 invocations, printed, loadErr, callKind, ranOnce>>

\* return print(ret): the document goes to standard output unless it cannot
\* be marshalled.
print ==
  /\ pc = "print"
  /\ LET m == MarshalIndent(ret)
     IN  IF m.err # NoErr
         THEN /\ err' = Trace(m.err, "main.go:118")
              /\ UNCHANGED printed
         ELSE /\ printed' = Append(printed, m.out)
              /\ err' = NoErr
  /\ pc' = "returned"
  /\ UNCHANGED <<flags, keyfile, accounts, findAccounts, hasPost, selected, todo, results,
                 ret, invocations, postLog, loadErr, callKind, ranOnce>>

\* A command that got nil back issues another accountsDo / runOnce: the
\* finished call's locals are gone.
NextCall ==
  /\ pc = "returned"
  /\ err = NoErr
  /\ pc' = "idle"
  /\ hasPost' = FALSE
  /\ selected' = EmptyMap
  /\ todo' = {}
  /\ results' = EmptyMap
  /\ ret' = NilValue
  /\ invocations' = <<>>
  /\ postLog' = <<>>
  /\ printed' = <<>>
  /\ callKind' = "none"
  /\ UNCHANGED <<flags, keyfile, accounts, findAccounts, err, loadErr, ranOnce>>

\* app.Run returns to main: log.Fatal on an error, else a normal exit.
MainReturn ==
  /\ pc = "returned"
  /\ pc' = IF MainFatal(err) THEN "fatal_main" ELSE "exit0"
  /\ UNCHANGED <<flags, keyfile, accounts, findAccounts, locals, loadErr, ranOnce>>

Next ==
  \/ AccountsDo
  \/ RunOnce
  \/ LoopStep
  \/ PostStep
  \/ print
  \/ NextCall
  \/ MainReturn

Spec == Init /\ [][Next]_vars

\* ------------------------------------------------------------- properties

\* accountsDo is past its loop.
LoopFinished ==
  \/ pc \in {"print", "returned", "exit0", "fatal_main"}
  \/ pc = "loop" /\ todo = {}

\* accountsDo has returned (and main may have acted on it).
Returned == pc \in {"returned", "exit0", "fatal_main"}

\* Every selected entry holds an account of the registry.
AllPresent == \A k \in DOMAIN selected : selected[k] # Nil

\* Name of the account the i-th invocation was made on.
InvokedName(i) == invocations[i].account[1].Name

Failed == {i \in 1..Len(invocations) : invocations[i].err # NoErr}

IsErrorString(v, msg) ==
  /\ v.type = "string"
  /\ Len(v.val) >= 7
  /\ SubSeq(v.val, 1, 7) = "error: "
  /\ SubSeq(v.val, 8, Len(v.val)) = msg

Keys(ks) == {ks[i].Name : i \in 1..Len(ks)}

\* C1: when accountsDo has finished its loop over N accounts, all present in
\* the registry, of which M failed, results has exactly N entries, one per
\* attempted account name; a failing account's entry is the string "error: "
\* followed by the error message, a succeeding account's entry is exactly the
\* payload the operation returned.
C1_ResultsShape ==
  (LoopFinished /\ AllPresent) =>
    /\ Len(invocations) = Cardinality(DOMAIN selected)
    /\ Cardinality(DOMAIN results) = Cardinality(DOMAIN selected)
    /\ DOMAIN results = {InvokedName(i) : i \in 1..Len(invocations)}
    /\ \A i \in 1..Len(invocations) :
         IF i \in Failed
         THEN IsErrorString(results[InvokedName(i)], invocations[i].err.msg)
         ELSE results[InvokedName(i)] = invocations[i].res
    /\ Cardinality({n \in DOMAIN results : results[n].type = "string"}) = Cardinality(Failed)

C1_Witness ==
  /\ pc = "returned"
  /\ DOMAIN selected = {"A", "B"}
  /\ Cardinality(Failed) = 1
  /\ results["B"] = StringValue("error: auth failed")
  /\ results["A"] = PayloadValue("p2")

\* C2: accountsDo never aborts early: whatever the iteration order and
\* wherever the operation fails, every selected account is either still to be
\* yielded or was invoked exactly once, so once the loop ends every account
\* after a failing position was invoked exactly once; and the entries recorded
\* before an invocation are the same ever after.
C2_NoEarlyAbort ==
  (pc \in {"loop", "print", "returned", "exit0", "fatal_main"} /\ AllPresent) =>
    /\ todo \cup {InvokedName(i) : i \in 1..Len(invocations)} = DOMAIN selected
    /\ \A i, j \in 1..Len(invocations) :
         /\ InvokedName(i) \notin todo
         /\ (i # j => InvokedName(i) # InvokedName(j))
    /\ \A i \in 1..Len(invocations) :
         \A n \in DOMAIN invocations[i].before :
            n \in DOMAIN results /\ results[n] = invocations[i].before[n]
    /\ LoopFinished =>
         \A k \in Failed :
            \A n \in DOMAIN selected \ {InvokedName(i) : i \in 1..k} :
               Cardinality({j \in (k+1)..Len(invocations) : InvokedName(j) = n}) = 1

C2_Witness ==
  /\ pc = "returned"
  /\ Len(invocations) = 2
  /\ Failed = {1}
  /\ invocations[2].err = NoErr
  /\ invocations[2].before = [n \in {InvokedName(1)} |-> results[n]]

\* C3: a --name absent from the registry never crashes the process: the
\* fan-out records an error string (AccountNotFoundError) under that name.
C3_NotFoundBecomesErrorString ==
  /\ pc # "panic"
  /\ (LoopFinished /\ callKind = "accountsDo" /\ findAccounts = "impl"
        /\ name # "" /\ name \notin DOMAIN accounts) =>
       /\ DOMAIN results = {name}
       /\ results[name].type = "string"
       /\ SubSeq(results[name].val, 1, 7) = "error: "

\* C4: a supplied finalizer is called at most once and only when every
\* selected account has been processed, exactly once by the time accountsDo
\* is past it; its error is what accountsDo returns and then nothing is
\* rendered; at most one document is rendered, the finalized value with a
\* finalizer and the raw results without one.
C4_FinalizerThenRender ==
  /\ Len(postLog) <= 1
  /\ Len(printed) <= 1
  /\ ~hasPost => postLog = <<>>
  /\ (hasPost /\ pc \in {"print", "returned", "exit0", "fatal_main"}) => Len(postLog) = 1
  /\ \A i \in 1..Len(postLog) :
       /\ postLog[i].pending = {}
       /\ Len(invocations) = Cardinality(DOMAIN selected)
       /\ DOMAIN postLog[i].arg = DOMAIN selected
       /\ postLog[i].arg = results
       /\ postLog[i].err # NoErr =>
            /\ printed = <<>>
            /\ pc \in {"returned", "fatal_main"}
            /\ err = Trace(postLog[i].err, "main.go:107")
  /\ \A d \in 1..Len(printed) :
       IF hasPost
       THEN /\ postLog[1].err = NoErr
            /\ printed[d] = "{" \o postLog[1].val.val \o "}"
       ELSE printed[d] = MarshalIndent(MapValue(results)).out

C4_Witness ==
  /\ pc = "fatal_main"
  /\ hasPost
  /\ Len(invocations) = 2
  /\ postLog[1].err = NewErr("bad aggregate")
  /\ printed = <<>>

\* C5: without a finalizer, per-account failures (even of every account)
\* never make accountsDo return an error: it renders the results with the
\* error strings in them and main does not take its fatal exit.
C5_PerAccountErrorsNotFatal ==
  (Returned /\ ~hasPost /\ AllPresent) =>
    /\ err = NoErr
    /\ pc # "fatal_main"
    /\ Len(printed) = 1
    /\ printed[1] = MarshalIndent(MapValue(results)).out
    /\ \A i \in Failed : IsErrorString(results[InvokedName(i)], invocations[i].err.msg)

C5_Witness ==
  /\ pc = "exit0"
  /\ ~hasPost
  /\ DOMAIN selected = {"A", "B"}
  /\ Failed = {1, 2}
  /\ printed = <<"{\"A\": \"error: auth failed\",\"B\": \"error: auth failed\"}">>

\* C6: when loadKeys fails the process is stopped in initAccounts: no
\* operation and no finalizer has been invoked and nothing has been rendered.
C6_LoadFailureAborts ==
  /\ loadErr =>
       /\ pc = "fatal_load"
       /\ invocations = <<>>
       /\ postLog = <<>>
       /\ printed = <<>>
  /\ file.kind # "ok" => (pc \in {"idle", "fatal_load"} /\ (pc = "fatal_load" <=> loadErr))

C6_Witness ==
  /\ pc = "fatal_load"
  /\ file.kind = "malformed"
  /\ callKind = "accountsDo"

\* C7: from a non-empty sequence of credential records initAccounts builds a
\* registry whose keys are exactly the names in the sequence, one Account per
\* name with that Name, built from the last record bearing the name.
C7_RegistryLastWins ==
  (pc \notin {"idle", "fatal_load"} /\ file.keys # <<>>) =>
    /\ DOMAIN accounts = Keys(file.keys)
    /\ \A n \in DOMAIN accounts :
         LET last == CHOOSE i \in 1..Len(file.keys) :
                       /\ file.keys[i].Name = n
                       /\ \A j \in (i+1)..Len(file.keys) : file.keys[j].Name # n
         IN  /\ accounts[n] # Nil
             /\ Len(accounts[n]) = 1
             /\ accounts[n][1].Name = n
             /\ accounts[n][1].Client.APIKey = file.keys[last].APIKey
             /\ accounts[n][1].Client.SecretKey = file.keys[last].SecretKey
             /\ accounts[n][1].Client.Debug = debug

C7_Witness ==
  /\ pc = "loop"
  /\ Len(file.keys) = 2
  /\ file.keys[1].Name = "A" /\ file.keys[1].APIKey = "k1"
  /\ file.keys[2].Name = "A" /\ file.keys[2].APIKey = "k2"
  /\ DOMAIN accounts = {"A"}
  /\ accounts["A"][1].Client.APIKey = "k2"

\* C8: the name-based selector yields the whole registry for an empty name
\* filter and, for a name the registry has, exactly the one entry of that name
\* holding the registry's account.
C8_SelectByName ==
  (pc \notin {"idle", "fatal_load"} /\ findAccounts = "impl") =>
    /\ name = "" => selected = accounts
    /\ (name # "" /\ name \in DOMAIN accounts) =>
         /\ DOMAIN selected = {name}
         /\ selected[name] = accounts[name]
         /\ selected[name][1].Name = name

C8_Witness ==
  /\ pc = "loop"
  /\ findAccounts = "impl"
  /\ name = "B"
  /\ DOMAIN accounts = {"A", "B"}
  /\ DOMAIN selected = {"B"}

\* C9: runOnce rebuilds the registry and, when it is not empty, invokes the
\* operation on exactly one account, one of that registry, whatever the name
\* filter says; on an empty registry it invokes nothing and the result is
\* empty.
C9_RunOnceSingleAccount ==
  (callKind = "runOnce" /\ pc \notin {"idle", "fatal_load"}) =>
    /\ DOMAIN accounts = Keys(file.keys)
    /\ Cardinality(DOMAIN selected) <= 1
    /\ \A k \in DOMAIN selected : k \in DOMAIN accounts /\ selected[k] = accounts[k]
    /\ LoopFinished =>
         IF DOMAIN accounts # {}
         THEN /\ Len(invocations) = 1
              /\ invocations[1].account # Nil
              /\ \E k \in DOMAIN accounts : invocations[1].account = accounts[k]
         ELSE /\ invocations = <<>>
              /\ results = EmptyMap

C9_Witness ==
  /\ callKind = "runOnce"
  /\ pc = "returned"
  /\ name = "C"
  /\ DOMAIN accounts = {"A", "B"}
  /\ Len(invocations) = 1
  /\ DOMAIN results = {"B"}

\* C10: findAccounts is the name-based selector until the first runOnce and
\* the single-account one from then on, whichever entry point runs later: an
\* accountsDo after a runOnce attempts at most one account, taken from the
\* registry without regard to the name filter.
C10_SelectorSticks ==
  /\ ranOnce <=> findAccounts = "once"
  /\ (ranOnce /\ pc \notin {"idle", "fatal_load"}) =>
       /\ Cardinality(DOMAIN selected) <= 1
       /\ Len(invocations) <= 1
       /\ DOMAIN accounts # {} => Cardinality(DOMAIN selected) = 1
       /\ \A k \in DOMAIN selected : k \in DOMAIN accounts /\ selected[k] = accounts[k]

C10_Witness ==
  /\ ranOnce
  /\ callKind = "accountsDo"
  /\ pc = "returned"
  /\ name = "A"
  /\ DOMAIN accounts = {"A", "B"}
  /\ DOMAIN results = {"B"}

====
